---- MODULE Spec2Model ----
(***************************************************************************)
(* Model of the express-ts-app REST API: registration, login and logout    *)
(* with JWT cookies, and the guarded user-profile endpoints, over a        *)
(* relational store of user profiles.                                      *)
(*                                                                         *)
(* A request is a record in a slot of `req`.  A handler is a sequence of   *)
(* steps, one per stretch of code between two awaits; `pc` is the await    *)
(* the handler is suspended at.  `jar` and `scn` are client-side and       *)
(* history variables; the server never reads them.                         *)
(***************************************************************************)
EXTENDS Integers, Sequences, FiniteSets, TLC

VARIABLES
    profiles,    \* the UserProfile table: a set of rows
    idCounter,   \* number of ids the store has generated so far
    now,         \* wall clock, in seconds
    ticks,       \* number of clock steps taken
    nodeEnv,     \* process.env.NODE_ENV
    jwtSecret,   \* process.env.JWT_SECRET
    req,         \* the requests, one per slot
    jar,         \* cookie jar of a browser client that honours Set-Cookie
    salts,       \* number of salts the password hasher has drawn
    scn,         \* how far the last requests follow the session scenario
    call         \* the last direct call of a helper, as a unit test makes it

vars == <<profiles, idCounter, now, ticks, nodeEnv, jwtSecret, req, jar, salts, scn,
          call>>

-----------------------------------------------------------------------------
(* Bounds *)

MaxIds == 2
MaxTicks == 2
MaxSalts == 3

(* Program constants *)

ExpiresInMonth == 60 * 60 * 24 * 30
ExpiresIn == 60 * 60 * 24 * 365
SaltRounds == 10
JWT_COOKIE_NAME == "jwt"
MinPasswordLength == 8

-----------------------------------------------------------------------------
(* Input domains *)

Absent == "absent"
Emails == {"a@x.com", "b@x.com"}
NotAnEmail == "not-an-email"
Passwords == {"password123", "newpassword123"}
ShortPassword == "short"
Names == {"Updated Name"}
DefaultPage == 1
DefaultPageSize == 10
BadId == 0
NoNumber == -1
CuidIds == 1 .. MaxIds
\* A cuid2 a client made itself; the store generates none of these.
SuppliedIds == {101}
ServerSecret == "S1"
OtherSecret == "S2"
Missing == "undefined"
Slots == {1}
RaceSlots == {1, 2}
AllSlots == Slots \cup RaceSlots
\* The clock moves to just before a token's expiry, then onto it, in turn.
ClockStep(k) == IF k % 2 = 0 THEN ExpiresIn - 1 ELSE 1

Null == [kind |-> "null"]
NoCall ==
    [fn |-> "none", userProfile |-> Null, cookie |-> [kind |-> "none"],
     secret |-> "undefined", at |-> 0, status |-> 0, result |-> Null,
     password |-> "absent", original |-> "absent", hashedPassword |-> Null,
     valid |-> FALSE, made |-> {}]
NoCookie == [kind |-> "none"]
Garbage == [kind |-> "garbage"]

StrLen(s) ==
    CASE s = "password123" -> 11
      [] s = "newpassword123" -> 14
      [] s = "short" -> 5
      [] OTHER -> 0

-----------------------------------------------------------------------------
(* Schema validation (zod).  An operator returns the paths of the failing  *)
(* fields, in the order the shape declares them.                           *)

IsEmail(v) == v \in Emails
IsCuid2(v) == v \in CuidIds \cup SuppliedIds

CredentialsErrorsFirstOnly(email, password) ==
    IF email = Absent \/ ~IsEmail(email) THEN <<"email">>
    ELSE IF password = Absent \/ StrLen(password) < MinPasswordLength
         THEN <<"password">> ELSE <<>>

CredentialsErrors(email, password) ==
    (IF email = Absent \/ ~IsEmail(email) THEN <<"email">> ELSE <<>>)
    \o (IF password = Absent \/ StrLen(password) < MinPasswordLength
        THEN <<"password">> ELSE <<>>)

IdParamErrors(id) == IF IsCuid2(id) THEN <<>> ELSE <<"id">>

UpdateBodyErrorsIdAllowed(email, name, bid) ==
    IF email # Absent /\ ~IsEmail(email) THEN <<"email">> ELSE <<>>

UpdateBodyErrors(email, name, bid) ==
    (IF email # Absent /\ ~IsEmail(email) THEN <<"email">> ELSE <<>>)
    \o (IF bid # Absent THEN <<"id">> ELSE <<>>)

PageErrors(page, pageSize) ==
    (IF page # NoNumber /\ page <= 0 THEN <<"page">> ELSE <<>>)
    \o (IF pageSize # NoNumber /\ pageSize <= 0 THEN <<"pageSize">> ELSE <<>>)

-----------------------------------------------------------------------------
(* Password hashing (bcrypt).  A hash embeds its cost and salt; the digest *)
(* is a one-way function of salt and password.                             *)

Digest(salt, password) == <<salt, password>>

hashPasswordPlain(password, salt) == [kind |-> "plain", text |-> password]

hashPasswordFixedSalt(password, salt) ==
    [kind |-> "bcrypt", cost |-> SaltRounds, salt |-> salt,
     digest |-> Digest(0, password)]

hashPassword(password, salt) ==
    [kind |-> "bcrypt", cost |-> SaltRounds, salt |-> salt,
     digest |-> Digest(salt, password)]

getIsPasswordValidAny(password, hashedPassword) == hashedPassword.kind = "bcrypt"

getIsPasswordValid(password, hashedPassword) ==
    /\ hashedPassword.kind = "bcrypt"
    /\ hashedPassword.digest = Digest(hashedPassword.salt, password)

-----------------------------------------------------------------------------
(* Tokens (jsonwebtoken) *)

TokenPayloadName(userProfile) == [id |-> userProfile.id, email |-> userProfile.name]

TokenPayload(userProfile) == [id |-> userProfile.id, email |-> userProfile.email]

generateJwtTokenWholeProfile(userProfile, secret, t) ==
    IF secret = Missing
    THEN [ok |-> FALSE, error |-> "secretOrPrivateKey must have a value"]
    ELSE [ok |-> TRUE,
          token |-> [kind |-> "jwt", payload |-> userProfile,
                     iat |-> t, exp |-> t + ExpiresIn, sig |-> secret]]

generateJwtToken(userProfile, secret, t) ==
    IF secret = Missing
    THEN [ok |-> FALSE, error |-> "secretOrPrivateKey must have a value"]
    ELSE [ok |-> TRUE,
          token |-> [kind |-> "jwt", payload |-> TokenPayload(userProfile),
                     iat |-> t, exp |-> t + ExpiresIn, sig |-> secret]]

\* A payload is a JSON object (a record of its fields) or a bare string
\* (a record of the one field `string`).
IsObject(payload) == "string" \notin DOMAIN payload

\* What jwt.verify returns: an object payload with the registered claims
\* iat and exp that jwt.sign added to it; a string payload as it is.
Decoded(token) ==
    IF IsObject(token.payload)
    THEN token.payload @@ [iat |-> token.iat, exp |-> token.exp]
    ELSE token.payload

JwtVerifyNoExpiry(token, secret, t) ==
    IF token.kind # "jwt" THEN [ok |-> FALSE, error |-> "jwt malformed"]
    ELSE IF secret = Missing
    THEN [ok |-> FALSE, error |-> "secret or public key must be provided"]
    ELSE IF token.sig # secret THEN [ok |-> FALSE, error |-> "invalid signature"]
    ELSE [ok |-> TRUE, payload |-> Decoded(token)]

JwtVerifyUnsigned(token, secret, t) ==
    IF token.kind # "jwt" THEN [ok |-> FALSE, error |-> "jwt malformed"]
    ELSE IF secret = Missing
    THEN [ok |-> FALSE, error |-> "secret or public key must be provided"]
    ELSE IF IsObject(token.payload) /\ t >= token.exp
    THEN [ok |-> FALSE, error |-> "jwt expired"]
    ELSE [ok |-> TRUE, payload |-> Decoded(token)]

JwtVerify(token, secret, t) ==
    IF token.kind # "jwt" THEN [ok |-> FALSE, error |-> "jwt malformed"]
    ELSE IF secret = Missing
    THEN [ok |-> FALSE, error |-> "secret or public key must be provided"]
    ELSE IF token.sig # secret THEN [ok |-> FALSE, error |-> "invalid signature"]
    ELSE IF IsObject(token.payload) /\ t >= token.exp
    THEN [ok |-> FALSE, error |-> "jwt expired"]
    ELSE [ok |-> TRUE, payload |-> Decoded(token)]

isTokenValid(payload) ==
    IsObject(payload) /\ "id" \in DOMAIN payload /\ "email" \in DOMAIN payload

getJwtTokenFromCookie(cookie, secret, t) ==
    IF cookie.kind = "none" THEN [ok |-> FALSE, error |-> "No token found"]
    ELSE LET decodedToken == JwtVerify(cookie, secret, t)
         IN  IF ~decodedToken.ok THEN decodedToken
             ELSE IF isTokenValid(decodedToken.payload) THEN decodedToken
             ELSE [ok |-> FALSE, error |-> "Invalid token payload"]

-----------------------------------------------------------------------------
(* Cookies *)

NoSetCookie == [kind |-> "none"]

\* response.cookie and response.clearCookie default the path to "/".
setJwtCookieAlwaysSecure(token, env) ==
    [kind |-> "set", name |-> JWT_COOKIE_NAME, value |-> token, path |-> "/",
     httpOnly |-> TRUE, secure |-> TRUE, sameSite |-> "strict"]

setJwtCookie(token, env) ==
    [kind |-> "set", name |-> JWT_COOKIE_NAME, value |-> token, path |-> "/",
     httpOnly |-> TRUE, secure |-> (env = "production"), sameSite |-> "strict"]

clearJwtCookieNothing(env) == NoSetCookie

Epoch == "Thu, 01 Jan 1970 00:00:00 GMT"

clearJwtCookie(env) ==
    [kind |-> "clear", name |-> JWT_COOKIE_NAME, value |-> "", path |-> "/",
     expires |-> Epoch,
     httpOnly |-> TRUE, secure |-> (env = "production"), sameSite |-> "strict"]

-----------------------------------------------------------------------------
(* Responses *)

NoBody == [kind |-> "none"]
Message(m) == [kind |-> "message", message |-> m]
BadRequest(errors) == [kind |-> "errors", message |-> "Bad Request", errors |-> errors]
ProfileBody(p) == [kind |-> "profile", profile |-> p]
ListBody(items) == [kind |-> "list", items |-> items]
ErrorPage == [kind |-> "error-page"]

\* response.status(s).json(b): the first send fixes what the client gets.
Send(q, s, b) ==
    [q EXCEPT !.status = IF q.sends = 0 THEN s ELSE @,
              !.body = IF q.sends = 0 THEN b ELSE @,
              !.sends = @ + 1]

ResolvedCallsNext(q) == [q EXCEPT !.pc = "done", !.nexts = @ + 1]

\* asyncHandler: the handler's promise resolved.
Resolved(q) == [q EXCEPT !.pc = "done"]

\* asyncHandler: the handler threw or rejected; the error goes to next, and
\* the framework's error handler answers 500 unless a response was sent.
Rejected(q) ==
    [q EXCEPT !.pc = "done", !.nexts = @ + 1,
              !.status = IF q.sends = 0 THEN 500 ELSE @,
              !.body = IF q.sends = 0 THEN ErrorPage ELSE @]

-----------------------------------------------------------------------------
(* The Profile Store (Prisma over the UserProfile table).  createdAt is    *)
(* kept as the rank of the row's creation, which orders rows as their      *)
(* creation instants do.                                                   *)

EmailTaken(rows, email) == \E p \in rows : p.email = email
IdTaken(rows, id) == \E p \in rows : p.id = id

retrieveUserProfileFromDatabaseByEmailMiss(rows, email) == Null

retrieveUserProfileFromDatabaseByEmail(rows, email) ==
    IF EmailTaken(rows, email) THEN CHOOSE p \in rows : p.email = email ELSE Null

retrieveUserProfileFromDatabaseById(rows, id) ==
    IF IdTaken(rows, id) THEN CHOOSE p \in rows : p.id = id ELSE Null

\* create: the row gets a generated id, the default name and its creation
\* time; the unique index on email rejects a second row with the same email.
\* The data of a create: id NoNumber and name Absent stand for a key left
\* out, which the store fills with a generated id and the default name.
CreateInput(id, email, name, hashedPassword) ==
    [id |-> id, email |-> email, name |-> name, hashedPassword |-> hashedPassword]

saveUserProfileToDatabaseGeneratedId(rows, counter, userProfile) ==
    IF EmailTaken(rows, userProfile.email)
    THEN [ok |-> FALSE, error |-> "Unique constraint failed", rows |-> rows]
    ELSE LET row == [id |-> counter + 1,
                     email |-> userProfile.email,
                     name |-> IF userProfile.name = Absent THEN "" ELSE userProfile.name,
                     hashedPassword |-> userProfile.hashedPassword,
                     createdAt |-> counter + 1]
         IN  [ok |-> TRUE, row |-> row, rows |-> rows \cup {row}]

saveUserProfileToDatabaseNoIndex(rows, counter, userProfile) ==
    LET row == [id |-> IF userProfile.id = NoNumber THEN counter + 1 ELSE userProfile.id,
                email |-> userProfile.email,
                name |-> IF userProfile.name = Absent THEN "" ELSE userProfile.name,
                hashedPassword |-> userProfile.hashedPassword,
                createdAt |-> counter + 1]
    IN  [ok |-> TRUE, row |-> row, rows |-> rows \cup {row}]

\* prisma.userProfile.create({ data: userProfile }): id and email are unique.
saveUserProfileToDatabase(rows, counter, userProfile) ==
    IF \/ EmailTaken(rows, userProfile.email)
       \/ (userProfile.id # NoNumber /\ IdTaken(rows, userProfile.id))
    THEN [ok |-> FALSE, error |-> "Unique constraint failed", rows |-> rows]
    ELSE LET row == [id |-> IF userProfile.id = NoNumber THEN counter + 1
                            ELSE userProfile.id,
                     email |-> userProfile.email,
                     name |-> IF userProfile.name = Absent THEN "" ELSE userProfile.name,
                     hashedPassword |-> userProfile.hashedPassword,
                     createdAt |-> counter + 1]
         IN  [ok |-> TRUE, row |-> row, rows |-> rows \cup {row}]

RECURSIVE NewestFirst(_)
NewestFirst(rows) ==
    IF rows = {} THEN <<>>
    ELSE LET newest == CHOOSE p \in rows : \A o \in rows : o.createdAt <= p.createdAt
         IN  <<newest>> \o NewestFirst(rows \ {newest})

Min(a, b) == IF a < b THEN a ELSE b

\* findMany with skip, take and orderBy createdAt desc.
retrieveManyUserProfilesFromDatabase(rows, page, pageSize) ==
    LET skip == (page - 1) * pageSize
        ordered == NewestFirst(rows)
    IN  SubSeq(ordered, skip + 1, Min(Len(ordered), skip + pageSize))

updateUserProfileInDatabaseByIdNoIndex(rows, id, email, name) ==
    IF ~IdTaken(rows, id)
    THEN [ok |-> FALSE, error |-> "Record to update not found", rows |-> rows]
    ELSE LET old == CHOOSE p \in rows : p.id = id
             new == [old EXCEPT !.email = IF email = Absent THEN @ ELSE email,
                                !.name = IF name = Absent THEN @ ELSE name]
         IN  [ok |-> TRUE, row |-> new, rows |-> (rows \ {old}) \cup {new}]

\* update: fails when no row has the id, or when the new email belongs to
\* another row; data maps the supplied fields to their new values.
updateUserProfileInDatabaseById(rows, id, email, name) ==
    IF ~IdTaken(rows, id)
    THEN [ok |-> FALSE, error |-> "Record to update not found", rows |-> rows]
    ELSE LET old == CHOOSE p \in rows : p.id = id
             new == [old EXCEPT !.email = IF email = Absent THEN @ ELSE email,
                                !.name = IF name = Absent THEN @ ELSE name]
         IN  IF EmailTaken(rows \ {old}, new.email)
             THEN [ok |-> FALSE, error |-> "Unique constraint failed", rows |-> rows]
             ELSE [ok |-> TRUE, row |-> new, rows |-> (rows \ {old}) \cup {new}]

deleteUserProfileFromDatabaseByIdKeep(rows, id) ==
    IF ~IdTaken(rows, id)
    THEN [ok |-> FALSE, error |-> "Record to delete does not exist", rows |-> rows]
    ELSE LET old == CHOOSE p \in rows : p.id = id
         IN  [ok |-> TRUE, row |-> old, rows |-> rows]

deleteUserProfileFromDatabaseByIdIdempotent(rows, id) ==
    [ok |-> TRUE,
     row |-> IF IdTaken(rows, id) THEN CHOOSE p \in rows : p.id = id
             ELSE [id |-> id, email |-> Absent, name |-> "", hashedPassword |-> Null,
                   createdAt |-> 0],
     rows |-> {p \in rows : p.id # id}]

deleteUserProfileFromDatabaseById(rows, id) ==
    IF ~IdTaken(rows, id)
    THEN [ok |-> FALSE, error |-> "Record to delete does not exist", rows |-> rows]
    ELSE LET old == CHOOSE p \in rows : p.id = id
         IN  [ok |-> TRUE, row |-> old, rows |-> rows \ {old}]

-----------------------------------------------------------------------------
(* Requests *)

Blank ==
    [op |-> "none", pc |-> "idle", cookie |-> NoCookie, pid |-> BadId,
     email |-> Absent, password |-> Absent, name |-> Absent, bid |-> Absent,
     extra |-> Absent,
     page |-> NoNumber, pageSize |-> NoNumber,
     at |-> 0, fresh |-> FALSE, existed |-> FALSE,
     user |-> Null, hashed |-> Null,
     status |-> 0, body |-> NoBody, setCookie |-> NoSetCookie,
     sends |-> 0, nexts |-> 0, dbOps |-> 0, verified |-> FALSE, fault |-> FALSE]

Free(r) == req[r].pc = "idle"

\* A token as a client can alter it: re-signed under another secret.
Forge(cookie) ==
    IF cookie.kind = "jwt" THEN {[cookie EXCEPT !.sig = OtherSecret]} ELSE {}

CookieChoices == {NoCookie, Garbage, jar} \cup Forge(jar)

\* What a client may do with the Set-Cookie header of a response: a browser
\* applies it; a client may also keep the token it holds.
JarChoices(cookie, header) ==
    CASE header.kind = "set" ->
            {header.value} \cup (IF cookie.kind = "jwt" THEN {cookie} ELSE {})
      [] header.kind = "clear" -> {NoCookie, cookie}
      [] OTHER -> {cookie}

Applied(cookie, header) ==
    CASE header.kind = "set" -> header.value
      [] header.kind = "clear" -> NoCookie
      [] OTHER -> cookie

IdOfEmail(rows, email) ==
    IF EmailTaken(rows, email) THEN (CHOOSE p \in rows : p.email = email).id ELSE BadId

NoScenario == [step |-> 0, email |-> Absent, password |-> Absent, id |-> BadId]

\* The session scenario: register, login, get own profile, logout, get again,
\* each sent right after the one before by a client that applies Set-Cookie
\* and sends the cookie it holds.
Follow(s, q, jarBefore, jarAfter, rowsAfter) ==
    IF jarAfter # Applied(jarBefore, q.setCookie) THEN NoScenario
    ELSE IF q.op = "register" /\ q.fresh /\ CredentialsErrors(q.email, q.password) = <<>>
    THEN [step |-> 1, email |-> q.email, password |-> q.password,
          id |-> IdOfEmail(rowsAfter, q.email)]
    ELSE IF s.step = 1 /\ q.op = "login" /\ q.email = s.email /\ q.password = s.password
    THEN [s EXCEPT !.step = 2]
    ELSE IF s.step \in {2, 4} /\ q.op = "getUserProfileById"
            /\ q.cookie = jarBefore /\ q.pid = s.id
    THEN [s EXCEPT !.step = @ + 1]
    ELSE IF s.step = 3 /\ q.op = "logout"
    THEN [s EXCEPT !.step = 4]
    ELSE NoScenario

\* A step of a handler leaves the request suspended at an await, or ends it
\* with the response written.
Step(r, q) ==
    /\ req' = [req EXCEPT ![r] = q]
    /\ UNCHANGED <<jar, scn, call>>

\* The client receives the response of a finished request.
Deliver(r) ==
    /\ req[r].pc = "done"
    /\ jar' \in JarChoices(jar, req[r].setCookie)
    /\ scn' = Follow(scn, req[r], jar, jar', profiles)
    /\ req' = [req EXCEPT ![r] = Blank]
    /\ UNCHANGED <<profiles, idCounter, now, ticks, nodeEnv, jwtSecret, salts, call>>

Config == <<nodeEnv, jwtSecret>>
Clock == <<now, ticks>>
Store == <<profiles, idCounter>>

\* Registrations that may still create a row.
PendingCreates ==
    Cardinality({r \in AllSlots : /\ req[r].op \in {"register", "createUserProfile"}
                                  /\ req[r].pc \notin {"idle", "done", "returned"}})

-----------------------------------------------------------------------------
(* user-authentication-controller *)

\* validateBody of login and register: 400 and a thrown Error on failure.
ValidateCredentials(q) ==
    LET errors == CredentialsErrors(q.email, q.password)
    IN  IF errors # <<>>
        THEN Rejected(Send(q, 400, BadRequest(errors)))
        ELSE [q EXCEPT !.pc = "lookup"]

LoginValidate(r) ==
    /\ Free(r)
    /\ \E email \in Emails \cup {NotAnEmail, Absent},
          password \in Passwords \cup {ShortPassword, Absent} :
          Step(r, ValidateCredentials(
                    [Blank EXCEPT !.op = "login", !.cookie = jar, !.at = now,
                                  !.email = email, !.password = password,
                                  !.fresh = ~EmailTaken(profiles, email)]))
    /\ UNCHANGED <<Store, Clock, Config, salts>>

LoginLookup(r) ==
    /\ req[r].op = "login" /\ req[r].pc = "lookup"
    /\ LET user == retrieveUserProfileFromDatabaseByEmail(profiles, req[r].email)
           q == [req[r] EXCEPT !.dbOps = @ + 1, !.user = user]
       IN  IF user # Null
           THEN Step(r, [q EXCEPT !.pc = "compare"])
           ELSE Step(r, Resolved(Send(q, 401, Message("Invalid credentials"))))
    /\ UNCHANGED <<Store, Clock, Config, salts>>

LoginCompare(r) ==
    /\ req[r].op = "login" /\ req[r].pc = "compare"
    /\ LET q == req[r]
           isPasswordValid == getIsPasswordValid(q.password, q.user.hashedPassword)
           signed == generateJwtToken(q.user, jwtSecret, now)
       IN  IF isPasswordValid
           THEN IF signed.ok
                THEN Step(r, Resolved(Send(
                        [q EXCEPT !.setCookie = setJwtCookie(signed.token, nodeEnv)],
                        200, Message("Logged in successfully"))))
                ELSE Step(r, Rejected(q))
           ELSE Step(r, Resolved(Send(q, 401, Message("Invalid credentials"))))
    /\ UNCHANGED <<Store, Clock, Config, salts>>

\* New accounts are created with the first password; a registration of a
\* taken email and a login try both.
RegisterPasswords(email) ==
    IF EmailTaken(profiles, email) THEN Passwords ELSE {"password123"}

\* Registrations in flight that have not drawn their salt yet.
PendingHashes ==
    Cardinality({r \in AllSlots : /\ req[r].op = "register"
                                  /\ req[r].pc \in {"lookup", "hash"}})

RegisterRequest(r, email, password) ==
    /\ Free(r)
    /\ idCounter + PendingCreates < MaxIds
    /\ salts + PendingHashes < MaxSalts
    /\ Step(r, ValidateCredentials(
                 [Blank EXCEPT !.op = "register", !.cookie = jar, !.at = now,
                               !.email = email, !.password = password,
                               !.fresh = ~EmailTaken(profiles, email)]))
    /\ UNCHANGED <<Store, Clock, Config, salts>>

RegisterValidate(r) ==
    /\ Free(r)
    /\ \E email \in Emails \cup {NotAnEmail, Absent} :
       \E password \in RegisterPasswords(email) \cup {ShortPassword, Absent} :
          RegisterRequest(r, email, password)

RegisterLookup(r) ==
    /\ req[r].op = "register" /\ req[r].pc = "lookup"
    /\ LET existingUser == retrieveUserProfileFromDatabaseByEmail(profiles, req[r].email)
           q == [req[r] EXCEPT !.dbOps = @ + 1, !.user = existingUser]
       IN  IF existingUser # Null
           THEN Step(r, Resolved(Send(q, 409, Message("User already exists"))))
           ELSE Step(r, [q EXCEPT !.pc = "hash"])
    /\ UNCHANGED <<Store, Clock, Config, salts>>

\* bcrypt draws a new salt on every call.
RegisterHash(r) ==
    /\ req[r].op = "register" /\ req[r].pc = "hash"
    /\ salts' = salts + 1
    /\ Step(r, [req[r] EXCEPT !.hashed = hashPassword(req[r].password, salts + 1),
                              !.pc = "save"])
    /\ UNCHANGED <<Store, Clock, Config>>

RegisterSave(r) ==
    /\ req[r].op = "register" /\ req[r].pc = "save"
    /\ LET q == [req[r] EXCEPT !.dbOps = @ + 1]
           created == saveUserProfileToDatabase(profiles, idCounter,
                         CreateInput(NoNumber, q.email, Absent, q.hashed))
       IN  IF created.ok
           THEN LET signed == generateJwtToken(created.row, jwtSecret, now)
                    u == [q EXCEPT !.user = created.row]
                IN  /\ profiles' = created.rows
                    /\ idCounter' = idCounter + 1
                    /\ IF signed.ok
                       THEN Step(r, Resolved(Send(
                               [u EXCEPT !.setCookie = setJwtCookie(signed.token, nodeEnv)],
                               201, Message("User registered successfully"))))
                       ELSE Step(r, Rejected(u))
           ELSE /\ UNCHANGED Store
                /\ Step(r, Rejected(q))
    /\ UNCHANGED <<Clock, Config, salts>>

LogoutGuarded(r) ==
    /\ Free(r)
    /\ \E cookie \in CookieChoices :
          LET q == [Blank EXCEPT !.op = "logout", !.cookie = cookie, !.at = now,
                                 !.verified = (cookie.kind # "none")]
          IN  IF ~getJwtTokenFromCookie(cookie, jwtSecret, now).ok
              THEN Step(r, Rejected(Send(q, 401, Message("Unauthorized"))))
              ELSE Step(r, Resolved(Send([q EXCEPT !.setCookie = clearJwtCookie(nodeEnv)],
                                         200, Message("Logged out successfully"))))
    /\ UNCHANGED <<Store, Clock, Config, salts>>

Logout(r) ==
    /\ Free(r)
    /\ \E cookie \in CookieChoices :
          Step(r, Resolved(Send(
                    [Blank EXCEPT !.op = "logout", !.cookie = cookie, !.at = now,
                                  !.setCookie = clearJwtCookie(nodeEnv)],
                    200, Message("Logged out successfully"))))
    /\ UNCHANGED <<Store, Clock, Config, salts>>

-----------------------------------------------------------------------------
(* require-authentication and user-profile-controller *)

requireAuthenticationKnownUser(cookie, secret, t) ==
    LET decoded == getJwtTokenFromCookie(cookie, secret, t)
    IN  IF decoded.ok /\ ~\E p \in profiles : /\ p.id = decoded.payload.id
                                               /\ p.email = decoded.payload.email
        THEN [ok |-> FALSE, error |-> "Unknown user"]
        ELSE decoded

requireAuthentication(cookie, secret, t) == getJwtTokenFromCookie(cookie, secret, t)

Unauthorized(q) == Rejected(Send(q, 401, Message("Unauthorized")))

\* A guarded request as it arrives; jwt.verify runs when a cookie is there.
Arrived(op, cookie) ==
    [Blank EXCEPT !.op = op, !.cookie = cookie, !.at = now,
                  !.verified = (cookie.kind # "none")]

GetAllBegin(q) ==
    IF ~requireAuthentication(q.cookie, jwtSecret, now).ok THEN Unauthorized(q)
    ELSE LET errors == PageErrors(q.page, q.pageSize)
         IN  IF errors # <<>> THEN Rejected(Send(q, 400, BadRequest(errors)))
             ELSE [q EXCEPT !.pc = "query",
                            !.page = IF @ = NoNumber THEN DefaultPage ELSE @,
                            !.pageSize = IF @ = NoNumber THEN DefaultPageSize ELSE @]

getAllUserProfiles(r) ==
    /\ Free(r)
    /\ \E cookie \in CookieChoices, page \in {NoNumber, 0, 2}, pageSize \in {NoNumber, 1} :
          Step(r, GetAllBegin([Arrived("getAllUserProfiles", cookie)
                                 EXCEPT !.page = page, !.pageSize = pageSize]))
    /\ UNCHANGED <<Store, Clock, Config, salts>>

GetAllQuery(r) ==
    /\ req[r].op = "getAllUserProfiles" /\ req[r].pc = "query"
    /\ LET q == [req[r] EXCEPT !.dbOps = @ + 1]
           found == retrieveManyUserProfilesFromDatabase(profiles, q.page, q.pageSize)
       IN  Step(r, Resolved(Send(q, 200, ListBody(found))))
    /\ UNCHANGED <<Store, Clock, Config, salts>>

GetByIdBegin(q) ==
    IF ~requireAuthentication(q.cookie, jwtSecret, now).ok THEN Unauthorized(q)
    ELSE LET errors == IdParamErrors(q.pid)
         IN  IF errors # <<>> THEN Rejected(Send(q, 400, BadRequest(errors)))
             ELSE [q EXCEPT !.pc = "find"]

getUserProfileById(r) ==
    /\ Free(r)
    /\ \E cookie \in CookieChoices, id \in CuidIds \cup {BadId} :
          Step(r, GetByIdBegin([Arrived("getUserProfileById", cookie) EXCEPT !.pid = id]))
    /\ UNCHANGED <<Store, Clock, Config, salts>>

GetByIdFind(r) ==
    /\ req[r].op = "getUserProfileById" /\ req[r].pc = "find"
    /\ LET q == [req[r] EXCEPT !.dbOps = @ + 1]
           profile == retrieveUserProfileFromDatabaseById(profiles, q.pid)
       IN  IF profile # Null
           THEN Step(r, Resolved(Send(q, 200, ProfileBody(profile))))
           ELSE Step(r, Resolved(Send(q, 404, Message("Not Found"))))
    /\ UNCHANGED <<Store, Clock, Config, salts>>

\* The bodies a PATCH is sent with.  extra is a key the schema does not
\* declare; z.object strips it, so the parsed body never has it.
UpdateBodies ==
    {[email |-> e, name |-> n, bid |-> Absent, extra |-> Absent] :
        e \in Emails \cup {Absent, NotAnEmail}, n \in Names \cup {Absent}}
    \cup {[email |-> Absent, name |-> n, bid |-> "new-id", extra |-> Absent] :
             n \in Names \cup {Absent}}
    \cup {[email |-> Absent, name |-> Absent, bid |-> Absent, extra |-> "admin"]}

UpdateBeginValidateFirst(q) ==
    LET idErrors == IdParamErrors(q.pid)
        bodyErrors == UpdateBodyErrors(q.email, q.name, q.bid)
    IN  IF idErrors # <<>> THEN Rejected(Send(q, 400, BadRequest(idErrors)))
        ELSE IF bodyErrors # <<>> THEN Rejected(Send(q, 400, BadRequest(bodyErrors)))
        ELSE IF ~requireAuthentication(q.cookie, jwtSecret, now).ok THEN Unauthorized(q)
        ELSE IF q.email = Absent /\ q.name = Absent
        THEN Resolved(Send(q, 400, Message("No valid fields to update")))
        ELSE [q EXCEPT !.pc = "update"]

UpdateBeginNoReturn(q) ==
    IF ~requireAuthentication(q.cookie, jwtSecret, now).ok THEN Unauthorized(q)
    ELSE LET idErrors == IdParamErrors(q.pid)
             bodyErrors == UpdateBodyErrors(q.email, q.name, q.bid)
         IN  IF idErrors # <<>> THEN Rejected(Send(q, 400, BadRequest(idErrors)))
             ELSE IF bodyErrors # <<>> THEN Rejected(Send(q, 400, BadRequest(bodyErrors)))
             ELSE IF q.email = Absent /\ q.name = Absent
             THEN [Send(q, 400, Message("No valid fields to update")) EXCEPT !.pc = "update"]
             ELSE [q EXCEPT !.pc = "update"]

UpdateBegin(q) ==
    IF ~requireAuthentication(q.cookie, jwtSecret, now).ok THEN Unauthorized(q)
    ELSE LET idErrors == IdParamErrors(q.pid)
             bodyErrors == UpdateBodyErrors(q.email, q.name, q.bid)
         IN  IF idErrors # <<>> THEN Rejected(Send(q, 400, BadRequest(idErrors)))
             ELSE IF bodyErrors # <<>> THEN Rejected(Send(q, 400, BadRequest(bodyErrors)))
             ELSE IF q.email = Absent /\ q.name = Absent
             THEN Resolved(Send(q, 400, Message("No valid fields to update")))
             ELSE [q EXCEPT !.pc = "update"]

UpdateRequest(r, cookie, id, b) ==
    /\ Free(r)
    /\ Step(r, UpdateBegin([Arrived("updateUserProfile", cookie)
                              EXCEPT !.pid = id, !.email = b.email,
                                     !.name = b.name, !.bid = b.bid,
                                     !.extra = b.extra]))
    /\ UNCHANGED <<Store, Clock, Config, salts>>

updateUserProfile(r) ==
    /\ Free(r)
    /\ \E cookie \in CookieChoices, id \in CuidIds \cup {BadId}, b \in UpdateBodies :
          UpdateRequest(r, cookie, id, b)

UpdateWrite(r) ==
    /\ req[r].op = "updateUserProfile" /\ req[r].pc = "update"
    /\ LET q == [req[r] EXCEPT !.dbOps = @ + 1]
           updated == updateUserProfileInDatabaseById(profiles, q.pid, q.email, q.name)
       IN  /\ profiles' = updated.rows
           /\ IF updated.ok
              THEN Step(r, Resolved(Send(q, 200, ProfileBody(updated.row))))
              ELSE IF updated.error = "Record to update not found"
              THEN Step(r, Resolved(Send(q, 404, Message("Not Found"))))
              ELSE Step(r, Resolved(Send(q, 409, Message("Profile already exists"))))
    /\ UNCHANGED <<idCounter, Clock, Config, salts>>

DeleteBegin(q) ==
    IF ~requireAuthentication(q.cookie, jwtSecret, now).ok THEN Unauthorized(q)
    ELSE LET errors == IdParamErrors(q.pid)
         IN  IF errors # <<>> THEN Rejected(Send(q, 400, BadRequest(errors)))
             ELSE [q EXCEPT !.pc = "delete"]

DeleteRequest(r, cookie, id) ==
    /\ Free(r)
    /\ Step(r, DeleteBegin([Arrived("deleteUserProfile", cookie)
                              EXCEPT !.pid = id, !.existed = IdTaken(profiles, id)]))
    /\ UNCHANGED <<Store, Clock, Config, salts>>

deleteUserProfile(r) ==
    /\ Free(r)
    /\ \E cookie \in CookieChoices, id \in CuidIds \cup {BadId} :
          DeleteRequest(r, cookie, id)

DeleteWrite(r) ==
    /\ req[r].op = "deleteUserProfile" /\ req[r].pc = "delete"
    /\ LET q == [req[r] EXCEPT !.dbOps = @ + 1]
           deleted == deleteUserProfileFromDatabaseById(profiles, q.pid)
       IN  /\ profiles' = deleted.rows
           /\ IF deleted.ok
              THEN Step(r, Resolved(Send(q, 200, ProfileBody(deleted.row))))
              ELSE Step(r, Resolved(Send(q, 404, Message("Not Found"))))
    /\ UNCHANGED <<idCounter, Clock, Config, salts>>

-----------------------------------------------------------------------------
(* The clock.  A clock step is a year long; a written response reaches    *)
(* the client before the next one.                                        *)

Tick ==
    /\ ticks < MaxTicks
    /\ \A r \in AllSlots : req[r].pc # "done"
    /\ now' = now + ClockStep(ticks)
    /\ ticks' = ticks + 1
    /\ UNCHANGED <<Store, Config, req, jar, salts, scn, call>>

-----------------------------------------------------------------------------

Init ==
    /\ profiles = {}
    /\ idCounter = 0
    /\ now = 0
    /\ ticks = 0
    /\ nodeEnv \in {"development", "production"}
    /\ jwtSecret = ServerSecret
    /\ req = [r \in AllSlots |-> Blank]
    /\ jar = NoCookie
    /\ salts = 0
    /\ scn = NoScenario
    /\ call = NoCall

Next ==
    \/ \E r \in Slots : LoginValidate(r)
    \/ \E r \in Slots : LoginLookup(r)
    \/ \E r \in Slots : LoginCompare(r)
    \/ \E r \in Slots : RegisterValidate(r)
    \/ \E r \in Slots : RegisterLookup(r)
    \/ \E r \in Slots : RegisterHash(r)
    \/ \E r \in Slots : RegisterSave(r)
    \/ \E r \in Slots : Logout(r)
    \/ \E r \in Slots : getAllUserProfiles(r)
    \/ \E r \in Slots : GetAllQuery(r)
    \/ \E r \in Slots : getUserProfileById(r)
    \/ \E r \in Slots : GetByIdFind(r)
    \/ \E r \in Slots : updateUserProfile(r)
    \/ \E r \in Slots : UpdateWrite(r)
    \/ \E r \in Slots : deleteUserProfile(r)
    \/ \E r \in Slots : DeleteWrite(r)
    \/ \E r \in Slots : Deliver(r)
    \/ Tick

Spec == Init /\ [][Next]_vars

\* Two register requests in flight at once.
NextRace ==
    \/ \E r \in RaceSlots : RegisterValidate(r)
    \/ \E r \in RaceSlots : RegisterLookup(r)
    \/ \E r \in RaceSlots : RegisterHash(r)
    \/ \E r \in RaceSlots : RegisterSave(r)
    \/ \E r \in RaceSlots : Deliver(r)

SpecRace == Init /\ [][NextRace]_vars

\* The process started with no JWT_SECRET in its environment: buildApp
\* mounts the routes all the same.
InitNoSecret ==
    /\ profiles = {}
    /\ idCounter = 0
    /\ now = 0
    /\ ticks = 0
    /\ nodeEnv \in {"development", "production"}
    /\ jwtSecret = Missing
    /\ req = [r \in AllSlots |-> Blank]
    /\ jar = NoCookie
    /\ salts = 0
    /\ scn = NoScenario
    /\ call = NoCall

NextAuth ==
    \/ \E r \in Slots : LoginValidate(r)
    \/ \E r \in Slots : LoginLookup(r)
    \/ \E r \in Slots : LoginCompare(r)
    \/ \E r \in Slots : RegisterValidate(r)
    \/ \E r \in Slots : RegisterLookup(r)
    \/ \E r \in Slots : RegisterHash(r)
    \/ \E r \in Slots : RegisterSave(r)
    \/ \E r \in Slots : Logout(r)
    \/ \E r \in Slots : Deliver(r)

SpecNoSecret == InitNoSecret /\ [][NextAuth]_vars

-----------------------------------------------------------------------------
(* The store failing.  A call of the store may fail with an error that is  *)
(* none of the constraint errors, such as a lost connection.  The create   *)
(* handler is the one of user-profile-controller.ts, which is mounted      *)
(* without asyncHandler and calls next itself.                             *)

\* A handler mounted without asyncHandler returned: the request is over only
\* if a response was sent.
Returned(q) == [q EXCEPT !.pc = IF q.sends > 0 THEN "done" ELSE "returned"]

\* The body's id is optional: NoNumber stands for a body without it.
CreateBodyErrors(id, email) ==
    (IF id # NoNumber /\ ~IsCuid2(id) THEN <<"id">> ELSE <<>>)
    \o (IF email = Absent \/ ~IsEmail(email) THEN <<"email">> ELSE <<>>)

\* Ids a client may send: one of its own making, the id of a stored record,
\* or a string that is no cuid2.
CreateIds == SuppliedIds \cup {p.id : p \in profiles} \cup {NoNumber, BadId}

\* The id of the body is kept in the request's pid.
CreateRequest(r, id, email, name) ==
    /\ Free(r)
    /\ idCounter + PendingCreates < MaxIds
    /\ LET q == [Blank EXCEPT !.op = "createUserProfile", !.cookie = jar,
                               !.at = now, !.pid = id, !.email = email,
                               !.name = name]
           errors == CreateBodyErrors(id, email)
       IN  IF errors # <<>>
           THEN Step(r, Rejected(Send(q, 400, BadRequest(errors))))
           ELSE Step(r, [q EXCEPT !.pc = "create"])
    /\ UNCHANGED <<Store, Clock, Config, salts>>

createUserProfile(r) ==
    /\ Free(r)
    /\ \E id \in CreateIds, email \in Emails \cup {NotAnEmail, Absent},
          name \in Names \cup {Absent} :
          CreateRequest(r, id, email, name)

CreateSave(r) ==
    /\ req[r].op = "createUserProfile" /\ req[r].pc = "create"
    /\ LET q == [req[r] EXCEPT !.dbOps = @ + 1]
           created == saveUserProfileToDatabase(profiles, idCounter,
                         CreateInput(q.pid, q.email, q.name, Null))
       IN  IF created.ok
           THEN /\ profiles' = created.rows
                /\ idCounter' = idCounter + 1
                /\ Step(r, Returned(Send(q, 201, ProfileBody(created.row))))
           ELSE /\ UNCHANGED Store
                /\ Step(r, Returned(Send(q, 409, Message("Profile already exists"))))
    /\ UNCHANGED <<Clock, Config, salts>>

\* The inner catch sends 409 for the unique-constraint error and nothing for
\* any other error.
CreateFault(r) ==
    /\ req[r].op = "createUserProfile" /\ req[r].pc = "create"
    /\ Step(r, Returned([req[r] EXCEPT !.dbOps = @ + 1, !.fault = TRUE]))
    /\ UNCHANGED <<Store, Clock, Config, salts>>

\* The catch of the guarded handlers rethrows what it does not translate.
UpdateFault(r) ==
    /\ req[r].op = "updateUserProfile" /\ req[r].pc = "update"
    /\ Step(r, Rejected([req[r] EXCEPT !.dbOps = @ + 1, !.fault = TRUE]))
    /\ UNCHANGED <<Store, Clock, Config, salts>>

DeleteFault(r) ==
    /\ req[r].op = "deleteUserProfile" /\ req[r].pc = "delete"
    /\ Step(r, Rejected([req[r] EXCEPT !.dbOps = @ + 1, !.fault = TRUE]))
    /\ UNCHANGED <<Store, Clock, Config, salts>>

\* A store with one registered profile, whose owner holds the session token.
FirstProfile ==
    saveUserProfileToDatabase({}, 0,
        CreateInput(NoNumber, "a@x.com", Absent, hashPassword("password123", 1))).row

InitFault ==
    /\ profiles = {FirstProfile}
    /\ idCounter = 1
    /\ now = 0
    /\ ticks = 0
    /\ nodeEnv \in {"development", "production"}
    /\ jwtSecret = ServerSecret
    /\ req = [r \in AllSlots |-> Blank]
    /\ jar = generateJwtToken(FirstProfile, ServerSecret, 0).token
    /\ salts = 1
    /\ scn = NoScenario
    /\ call = NoCall

NextFault ==
    \/ \E r \in Slots : createUserProfile(r)
    \/ \E r \in Slots : CreateSave(r)
    \/ \E r \in Slots : CreateFault(r)
    \/ \E r \in Slots : updateUserProfile(r)
    \/ \E r \in Slots : UpdateWrite(r)
    \/ \E r \in Slots : UpdateFault(r)
    \/ \E r \in Slots : deleteUserProfile(r)
    \/ \E r \in Slots : DeleteWrite(r)
    \/ \E r \in Slots : DeleteFault(r)
    \/ \E r \in Slots : Deliver(r)

\* The event loop runs every continuation that is ready, and a call of the
\* store settles.
SpecFault == InitFault /\ [][NextFault]_vars /\ WF_vars(NextFault)

-----------------------------------------------------------------------------
(* The token helpers called directly, as their unit tests call them: a     *)
(* token is signed for a profile or made elsewhere, time passes, the       *)
(* process is restarted with another JWT_SECRET, and the guard is asked    *)
(* about the token held.                                                   *)

SampleProfiles ==
    {[id |-> i, email |-> e, name |-> "Dr. Philip Lindgren",
      hashedPassword |-> hashPassword("password123", i), createdAt |-> i] :
        i \in CuidIds, e \in Emails}

\* Stand-ins for a JSON number where a string is expected.
NumberAsId == -42
NumberAsEmail == "42"

\* Payloads a token made elsewhere may carry.
NumCrafted == 7
CraftedPayload(i, p) ==
    CASE i = 1 -> [email |-> p.email]
      [] i = 2 -> [id |-> p.id]
      [] i = 3 -> [id |-> NumberAsId, email |-> p.email]
      [] i = 4 -> [id |-> p.id, email |-> NumberAsEmail]
      [] i = 5 -> [string |-> p.email]
      [] i = 6 -> [id |-> p.id, email |-> p.email, role |-> "admin"]
      [] OTHER -> [id |-> p.id, email |-> p.email]

Secrets == {ServerSecret, OtherSecret}

SignToken ==
    /\ \E p \in SampleProfiles :
          LET signed == generateJwtToken(p, jwtSecret, now)
          IN  /\ signed.ok
              /\ jar' = signed.token
              /\ call' = [NoCall EXCEPT !.fn = "generateJwtToken", !.userProfile = p,
                                        !.secret = jwtSecret, !.at = now]
    /\ UNCHANGED <<Store, Clock, Config, req, salts, scn>>

CraftToken ==
    /\ \E i \in 1 .. NumCrafted, secret \in Secrets :
          /\ jar' = [kind |-> "jwt", payload |-> CraftedPayload(i, FirstProfile),
                     iat |-> now, exp |-> now + ExpiresIn, sig |-> secret]
          /\ call' = [NoCall EXCEPT !.fn = "jwt.sign", !.secret = secret, !.at = now]
    /\ UNCHANGED <<Store, Clock, Config, req, salts, scn>>

\* requireAuthentication on a request that carries the token held.
VerifyToken ==
    /\ jar.kind = "jwt"
    /\ LET result == requireAuthentication(jar, jwtSecret, now)
       IN  call' = [fn |-> "requireAuthentication", userProfile |-> call.userProfile,
                    cookie |-> jar, secret |-> jwtSecret, at |-> now,
                    status |-> IF result.ok THEN 0 ELSE Unauthorized(Blank).status,
                    result |-> result,
                    password |-> Absent, original |-> Absent, hashedPassword |-> Null,
                    valid |-> FALSE, made |-> {}]
    /\ UNCHANGED <<Store, Clock, Config, req, jar, salts, scn>>

Elapse ==
    /\ ticks < MaxTicks
    /\ \E d \in {1, ExpiresIn - 1, ExpiresIn} : now' = now + d
    /\ ticks' = ticks + 1
    /\ UNCHANGED <<Store, Config, req, jar, salts, scn, call>>

Redeploy ==
    /\ jwtSecret' = IF jwtSecret = ServerSecret THEN OtherSecret ELSE ServerSecret
    /\ UNCHANGED <<Store, Clock, nodeEnv, req, jar, salts, scn, call>>

NextToken ==
    \/ SignToken
    \/ CraftToken
    \/ VerifyToken
    \/ Elapse
    \/ Redeploy

SpecToken == Init /\ [][NextToken]_vars

-----------------------------------------------------------------------------
(* The password helpers called directly, as their unit test calls them:    *)
(* passwords are hashed, and a password is compared with a hash made       *)
(* before.                                                                 *)

PasswordInputs == Passwords \cup {ShortPassword}

HashPassword ==
    /\ salts < MaxSalts
    /\ salts' = salts + 1
    /\ \E password \in PasswordInputs :
          LET hashedPassword == hashPassword(password, salts + 1)
          IN  call' = [NoCall EXCEPT
                         !.fn = "hashPassword", !.password = password,
                         !.hashedPassword = hashedPassword,
                         !.made = call.made \cup {[password |-> password,
                                                   hashedPassword |-> hashedPassword]}]
    /\ UNCHANGED <<Store, Clock, Config, req, jar, scn>>

ComparePassword ==
    /\ \E password \in PasswordInputs, m \in call.made :
          call' = [NoCall EXCEPT
                     !.fn = "getIsPasswordValid", !.password = password,
                     !.original = m.password, !.hashedPassword = m.hashedPassword,
                     !.valid = getIsPasswordValid(password, m.hashedPassword),
                     !.made = call.made]
    /\ UNCHANGED <<Store, Clock, Config, req, jar, salts, scn>>

NextPassword ==
    \/ HashPassword
    \/ ComparePassword

SpecPassword == Init /\ [][NextPassword]_vars

-----------------------------------------------------------------------------
(* Properties *)

Done(r) == req[r].pc = "done"

GuardedOps ==
    {"getAllUserProfiles", "getUserProfileById", "updateUserProfile", "deleteUserProfile"}

\* The cookie of q is absent, not a token, signed under another secret, or
\* expired when q arrived.
BadCookie(q) ==
    \/ q.cookie.kind = "none"
    \/ q.cookie.kind = "garbage"
    \/ q.cookie.kind = "jwt" /\ (q.cookie.sig # ServerSecret \/ q.at >= q.cookie.exp)

ValidCredentials(q) ==
    /\ q.email \in Emails
    /\ q.password \in Passwords

RowsOfEmail(email) == {p \in profiles : p.email = email}

\* The password whose hash the row stores.
StoresHashOf(row, password) ==
    /\ row.hashedPassword.kind = "bcrypt"
    /\ row.hashedPassword.digest = <<row.hashedPassword.salt, password>>

\* A step of request r, which is a request of kind op.
StepOf(r, op) == req'[r] # req[r] /\ req'[r].op = op

\* C1: a guarded endpoint answers a request whose jwt cookie is absent, not a
\* token, expired or wrongly signed with 401 { message: "Unauthorized" }, the
\* same response in all four cases.
C1_UnauthorizedIsUniform ==
    \A r \in AllSlots :
        (req[r].op \in GuardedOps /\ req[r].pc # "idle" /\ BadCookie(req[r]))
        => /\ Done(r)
           /\ req[r].status = 401
           /\ req[r].body = Message("Unauthorized")
           /\ req[r].setCookie = NoSetCookie

C1_Witness ==
    \E r \in AllSlots :
        /\ Done(r) /\ req[r].op = "getAllUserProfiles"
        /\ req[r].cookie.kind = "jwt" /\ req[r].cookie.sig = ServerSecret
        /\ req[r].at >= req[r].cookie.exp
        /\ req[r].status = 401

C2_GuardFirstState ==
    \A r \in AllSlots :
        (req[r].op \in GuardedOps /\ req[r].pc # "idle" /\ BadCookie(req[r]))
        => /\ req[r].status = 401
           /\ req[r].body.kind # "errors"
           /\ req[r].dbOps = 0
           /\ req[r].sends = 1

C2_GuardFirstStep ==
    \A r \in AllSlots :
        (req'[r] # req[r] /\ req'[r].op \in GuardedOps /\ BadCookie(req'[r]))
        => UNCHANGED <<profiles, idCounter>>

C3_UnknownUser(q) == RowsOfEmail(q.email) = {}
C3_WrongPassword(q) ==
    /\ RowsOfEmail(q.email) # {}
    /\ \A p \in RowsOfEmail(q.email) : ~StoresHashOf(p, q.password)

C3_InvalidCredentialsState ==
    \A r \in AllSlots :
        (Done(r) /\ req[r].op = "login" /\ ValidCredentials(req[r])
         /\ (C3_UnknownUser(req[r]) \/ C3_WrongPassword(req[r])))
        => /\ req[r].status = 401
           /\ req[r].body = Message("Invalid credentials")
           /\ req[r].setCookie = NoSetCookie

C3_LoginStep ==
    \A r \in AllSlots : StepOf(r, "login") => UNCHANGED <<profiles, idCounter>>

\* C3: a login with a schema-valid body for an unknown email, and one for a
\* known email with a password that is not the stored one, get the same 401
\* { message: "Invalid credentials" }, no cookie, and change no row.
C3_InvalidCredentials == []C3_InvalidCredentialsState /\ [][C3_LoginStep]_vars

C3_Witness ==
    \E r \in AllSlots :
        /\ Done(r) /\ req[r].op = "login" /\ ValidCredentials(req[r])
        /\ C3_WrongPassword(req[r])
        /\ req[r].status = 401

C4_ExistingEmailState ==
    \A r \in AllSlots :
        (Done(r) /\ req[r].op = "register" /\ ValidCredentials(req[r]) /\ ~req[r].fresh)
        => /\ req[r].status = 409
           /\ req[r].body = Message("User already exists")
           /\ req[r].setCookie = NoSetCookie

C4_ExistingEmailStep ==
    \A r \in AllSlots :
        (StepOf(r, "register") /\ ~req'[r].fresh) => UNCHANGED <<profiles, idCounter>>

\* C4: a register request whose email belongs to a row answers 409
\* { message: "User already exists" }, sets no cookie, and changes no row.
C4_ExistingEmail == []C4_ExistingEmailState /\ [][C4_ExistingEmailStep]_vars

C4_Witness ==
    \E r \in AllSlots :
        /\ Done(r) /\ req[r].op = "register" /\ ValidCredentials(req[r]) /\ ~req[r].fresh
        /\ \E p \in RowsOfEmail(req[r].email) : ~StoresHashOf(p, req[r].password)
        /\ req[r].status = 409

\* C5: of two concurrent register requests with the same unused email, one
\* answers 201 and the other 409 "User already exists", and one row has the
\* email.
C5_RaceGivesConflict ==
    \A r1, r2 \in RaceSlots :
        (r1 # r2 /\ Done(r1) /\ Done(r2)
         /\ req[r1].op = "register" /\ req[r2].op = "register"
         /\ ValidCredentials(req[r1]) /\ ValidCredentials(req[r2])
         /\ req[r1].email = req[r2].email /\ req[r1].fresh /\ req[r2].fresh)
        => /\ {req[r1].status, req[r2].status} = {201, 409}
           /\ \A r \in {r1, r2} :
                 req[r].status = 409 => req[r].body = Message("User already exists")
           /\ Cardinality(RowsOfEmail(req[r1].email)) = 1

C6_RegisteredState ==
    \A r \in AllSlots :
        (Done(r) /\ req[r].op = "register" /\ ValidCredentials(req[r]) /\ req[r].fresh)
        => /\ req[r].status = 201
           /\ req[r].body = Message("User registered successfully")
           /\ Cardinality(RowsOfEmail(req[r].email)) = 1
           /\ \A p \in RowsOfEmail(req[r].email) :
                 /\ StoresHashOf(p, req[r].password)
                 /\ getIsPasswordValid(req[r].password, p.hashedPassword)
                 /\ req[r].setCookie.kind = "set"
                 /\ req[r].setCookie.name = "jwt"
                 /\ req[r].setCookie.value.kind = "jwt"
                 /\ req[r].setCookie.value.sig = ServerSecret
                 /\ req[r].setCookie.value.payload = [id |-> p.id, email |-> p.email]

C6_RegisteredStep ==
    \A r \in AllSlots :
        (StepOf(r, "register") /\ req'[r].status = 201)
        => /\ profiles \subseteq profiles'
           /\ Cardinality(profiles') = Cardinality(profiles) + 1

\* C6: a register request with a schema-valid body and an unused email answers
\* 201, adds one row with that email that stores the hash of the password and
\* not the password, and sets the jwt cookie to a token for the new row.
C6_Registered == []C6_RegisteredState /\ [][C6_RegisteredStep]_vars

C6_Witness ==
    \E r \in AllSlots :
        /\ Done(r) /\ req[r].op = "register" /\ req[r].fresh
        /\ req[r].status = 201
        /\ Cardinality(profiles) = 2

C7_LoggedInState ==
    \A r \in AllSlots :
        (Done(r) /\ req[r].op = "login" /\ ValidCredentials(req[r]))
        => \A p \in RowsOfEmail(req[r].email) :
              StoresHashOf(p, req[r].password)
              => /\ req[r].status = 200
                 /\ req[r].body = Message("Logged in successfully")
                 /\ req[r].setCookie.kind = "set"
                 /\ req[r].setCookie.name = "jwt"
                 /\ LET decoded == getJwtTokenFromCookie(req[r].setCookie.value,
                                                         ServerSecret, now)
                    IN  /\ decoded.ok
                        /\ decoded.payload.id = p.id
                        /\ decoded.payload.email = p.email

C7_LoginFrame ==
    \A r \in AllSlots :
        (StepOf(r, "login") /\ req'[r].status = 200) => UNCHANGED <<profiles, idCounter>>

\* C7: a login with the email of a row and the password whose hash the row
\* stores answers 200 { message: "Logged in successfully" } and sets a jwt
\* cookie whose token verifies to the id and email of that row; no row changes.
C7_LoggedIn == []C7_LoggedInState /\ [][C7_LoginFrame]_vars

C7_Witness ==
    \E r \in AllSlots :
        /\ Done(r) /\ req[r].op = "login" /\ req[r].status = 200
        /\ req[r].setCookie.kind = "set"
        /\ \E p \in profiles : p.name # "" /\ req[r].setCookie.value.payload.id = p.id

C8_Progress(r) == Follow(scn, req[r], jar, Applied(jar, req[r].setCookie), profiles)

\* C8: the session scenario, request by request: register answers 201; login
\* with the same credentials answers 200 with a cookie; GET of the user's
\* profile with that cookie answers 200 with the user's email; logout clears
\* the cookie; the next GET, sent without the cleared cookie, answers 401.
C8_SessionScenario ==
    \A r \in AllSlots :
        Done(r) =>
            LET q == req[r]
                s == C8_Progress(r)
            IN  /\ s.step = 1 => q.status = 201
                /\ s.step = 2 => q.status = 200 /\ q.setCookie.kind = "set"
                /\ (s.step = 3 /\ ~(q.cookie.kind = "jwt" /\ q.at >= q.cookie.exp))
                   => /\ q.status = 200
                      /\ q.body.kind = "profile"
                      /\ q.body.profile.email = s.email
                /\ s.step = 4 => /\ q.status = 200
                                 /\ q.setCookie.kind = "clear"
                                 /\ q.setCookie.value = ""
                                 /\ q.setCookie.expires = Epoch
                /\ s.step = 5 => /\ q.cookie = NoCookie
                                 /\ q.status = 401

C8_Witness ==
    \E r \in AllSlots :
        /\ Done(r) /\ C8_Progress(r).step = 5
        /\ req[r].status = 401

\* C9: a token the server issued is accepted by every guarded endpoint at any
\* time before its expiry, whatever logout, update or deletion happened since.
C9_IssuedTokenAccepted ==
    \A r \in AllSlots :
        (Done(r) /\ req[r].op \in GuardedOps /\ ~BadCookie(req[r]))
        => req[r].status # 401

C9_Witness ==
    \E r \in AllSlots :
        /\ Done(r) /\ req[r].op \in GuardedOps /\ ~BadCookie(req[r])
        /\ req[r].at > req[r].cookie.iat
        /\ ~\E p \in profiles : p.id = req[r].cookie.payload.id
        /\ req[r].status = 200

C10_LogoutState ==
    \A r \in AllSlots :
        (req[r].op = "logout" /\ req[r].pc # "idle")
        => /\ Done(r)
           /\ req[r].status = 200
           /\ req[r].body = Message("Logged out successfully")
           /\ req[r].setCookie.kind = "clear"
           /\ req[r].setCookie.name = "jwt"
           /\ req[r].setCookie.value = ""
           /\ ~req[r].verified
           /\ req[r].dbOps = 0

C10_LogoutStep ==
    \A r \in AllSlots : StepOf(r, "logout") => UNCHANGED <<profiles, idCounter>>

\* C10: logout answers every request, whatever cookie it carries, with 200
\* { message: "Logged out successfully" } and a Set-Cookie that clears jwt,
\* verifies no token and neither reads nor changes the store.
C10_LogoutAlwaysSucceeds == []C10_LogoutState /\ [][C10_LogoutStep]_vars

C10_Witness ==
    \E r \in AllSlots :
        /\ Done(r) /\ req[r].op = "logout" /\ req[r].status = 200
        /\ req[r].cookie.kind = "jwt" /\ req[r].at >= req[r].cookie.exp

-----------------------------------------------------------------------------
(* The token helpers *)

Verified == call.fn = "requireAuthentication"

\* The held token was signed by generateJwtToken for call.userProfile.
Issued == call.userProfile # Null

\* C11: a token signed under one secret is never accepted by the guard of a
\* process whose JWT_SECRET is another: the guard fails with 401 and returns
\* no payload, whatever the token's payload is.
C11_OtherSecretRejected ==
    (Verified /\ call.cookie.sig # call.secret)
        => /\ ~call.result.ok
           /\ "payload" \notin DOMAIN call.result
           /\ call.status = 401

C11_Witness ==
    /\ Verified /\ Issued
    /\ call.cookie.sig = OtherSecret /\ call.secret = ServerSecret
    /\ call.at < call.cookie.exp
    /\ call.status = 401

\* C12: the token generateJwtToken makes for a profile carries the profile's
\* id and email and no other field of it, and verifying it under the same
\* secret before its expiry returns that id and email.
C12_TokenRoundTrip ==
    (Verified /\ Issued)
        => /\ DOMAIN call.cookie.payload = {"id", "email"}
           /\ (call.cookie.sig = call.secret /\ call.at < call.cookie.exp)
                 => /\ call.result.ok
                    /\ call.result.payload.id = call.userProfile.id
                    /\ call.result.payload.email = call.userProfile.email
                    /\ DOMAIN call.result.payload
                          \cap {"name", "hashedPassword", "createdAt", "updatedAt"} = {}

C12_Witness ==
    /\ Verified /\ Issued
    /\ call.cookie.sig = call.secret /\ call.at = call.cookie.exp - 1
    /\ call.result.ok /\ call.result.payload.email = call.userProfile.email

\* The payload is an object of exactly a string id and a string email, the
\* registered claims iat and exp aside.
IsIdentityPayload(payload) ==
    /\ IsObject(payload)
    /\ DOMAIN payload \ {"iat", "exp"} = {"id", "email"}
    /\ payload.id # NumberAsId
    /\ payload.email # NumberAsEmail

\* C13: the guard rejects with 401 every token that is signed under the
\* process's secret and not expired and whose payload is not exactly the
\* identity payload (a field missing, a field of the wrong type, a bare
\* string, a field beyond id and email).
C13_MalformedPayloadRejected ==
    (/\ Verified
     /\ call.cookie.sig = call.secret
     /\ call.at < call.cookie.exp
     /\ ~IsIdentityPayload(call.cookie.payload))
        => ~call.result.ok /\ call.status = 401

C14_ExpiryState ==
    (Verified /\ Issued /\ call.cookie.sig = call.secret)
        => /\ call.cookie.exp = call.cookie.iat + 31536000
           /\ call.at < call.cookie.iat + 31536000 => call.result.ok
           /\ call.at > call.cookie.iat + 31536000
                 => ~call.result.ok /\ call.status = 401

C14_ExpiryStep ==
    \/ jar' = jar
    \/ jar'.kind = "jwt" /\ jar'.iat = now /\ jar'.exp = now + 31536000

\* C14: a token expires exactly 31,536,000 seconds after it was issued: under
\* the right secret the guard accepts it at every time before that instant
\* and rejects it with 401 at every time after it, and no step changes the
\* expiry of a token held.
C14_ExactExpiry == []C14_ExpiryState /\ [][C14_ExpiryStep]_vars

C14_Witness ==
    /\ Verified /\ Issued /\ call.cookie.sig = call.secret
    /\ call.at = call.cookie.iat + 31536000 + 1
    /\ call.status = 401

-----------------------------------------------------------------------------
(* Start-up *)

\* C15: a process with no JWT secret serves no traffic: no login or register
\* request is processed and no record is created while the secret is absent.
C15_NoTrafficWithoutSecret ==
    jwtSecret = Missing
        => /\ profiles = {}
           /\ \A r \in AllSlots : req[r].op \notin {"login", "register"}

-----------------------------------------------------------------------------
(* The password helpers *)

-----------------------------------------------------------------------------
(* Error propagation *)

\* The request was refused by schema validation, or by the guard.
ValidationFailed(q) == q.body.kind = "errors"
AuthenticationFailed(q) == q.op \in GuardedOps /\ BadCookie(q)

\* C17: a request that fails validation or authentication is ended by its
\* 400 or 401 response alone: next is never called with an error for it.
C17_FailuresNotRaised ==
    \A r \in AllSlots :
        (Done(r) /\ (ValidationFailed(req[r]) \/ AuthenticationFailed(req[r])))
        => /\ req[r].status \in {400, 401}
           /\ req[r].nexts = 0

\* C18: every request is answered, also when the store fails: a store error
\* that the handler does not translate to 404 or 409 ends the request with
\* 500, in the create, update and delete handlers alike.
C18_FaultAnswered ==
    /\ \A r \in Slots : (req[r].pc # "idle") ~> Done(r)
    /\ [](\A r \in Slots : (Done(r) /\ req[r].fault) => req[r].status = 500)

-----------------------------------------------------------------------------
(* PATCH /user-profiles/:id *)

\* An update request that passed the guard and has a valid id.
AuthenticatedUpdate(q) ==
    q.op = "updateUserProfile" /\ ~BadCookie(q) /\ q.pid \in CuidIds

NoDeclaredField(q) == q.email = Absent /\ q.name = Absent /\ q.bid = Absent

Range(f) == {f[i] : i \in DOMAIN f}

C19_RefusedState ==
    \A r \in AllSlots :
        (Done(r) /\ AuthenticatedUpdate(req[r]))
        => /\ NoDeclaredField(req[r])
                 => /\ req[r].status = 400
                    /\ req[r].body = [kind |-> "message",
                                      message |-> "No valid fields to update"]
                    /\ req[r].dbOps = 0
           /\ req[r].bid # Absent
                 => /\ req[r].status = 400
                    /\ req[r].body.kind = "errors"
                    /\ req[r].body.message = "Bad Request"
                    /\ "id" \in Range(req[r].body.errors)
                    /\ req[r].dbOps = 0

C19_RefusedStep ==
    \A r \in AllSlots :
        (/\ req'[r] # req[r]
         /\ AuthenticatedUpdate(req'[r])
         /\ NoDeclaredField(req'[r]) \/ req'[r].bid # Absent)
        => UNCHANGED <<profiles, idCounter>>

\* C19: an authenticated PATCH with a valid id whose body has no declared
\* field (empty, or unknown keys only) gets 400 "No valid fields to update";
\* one whose body has id gets 400 "Bad Request" with an error on path id; in
\* both cases the store is neither read nor changed.
C19_UpdateRefused == []C19_RefusedState /\ [][C19_RefusedStep]_vars

C19_Witness ==
    \E r \in AllSlots :
        /\ Done(r) /\ AuthenticatedUpdate(req[r])
        /\ req[r].extra # Absent /\ NoDeclaredField(req[r])
        /\ req[r].status = 400 /\ req[r].body.kind = "message"
        /\ profiles # {}

C20_Outcome(q, before, after) ==
    LET target == {p \in before : p.id = q.pid}
        conflict == /\ q.email # Absent
                    /\ \E o \in before : o.id # q.pid /\ o.email = q.email
    IN  IF target = {}
        THEN /\ q.status = 404
             /\ q.body = [kind |-> "message", message |-> "Not Found"]
             /\ after = before
        ELSE IF conflict
        THEN q.status = 409 /\ after = before
        ELSE /\ q.status = 200
             /\ q.body.kind = "profile"
             /\ \E old \in target :
                   LET new == q.body.profile
                   IN  /\ new \in after
                       /\ after \ {new} = before \ {old}
                       /\ new.id = old.id
                       /\ new.hashedPassword = old.hashedPassword
                       /\ new.createdAt = old.createdAt
                       /\ new.email = IF q.email = Absent THEN old.email ELSE q.email
                       /\ new.name = IF q.name = Absent THEN old.name ELSE q.name

\* C20: an authenticated PATCH with a valid body answers 200 with the updated
\* record when the id exists and no other record holds the new email: only
\* the supplied fields change, id, hashedPassword and createdAt and every
\* other record stay; it answers 404 "Not Found" when no record has the id and
\* 409 when another record holds the new email, the store unchanged.
C20_UpdateFrame ==
    [][\A r \in AllSlots :
          (req[r].op = "updateUserProfile" /\ req[r].pc = "update" /\ Done(r)')
          => /\ C20_Outcome(req'[r], profiles, profiles')
             /\ idCounter' = idCounter]_vars

C20_Witness ==
    \E r \in AllSlots :
        /\ Done(r) /\ AuthenticatedUpdate(req[r]) /\ req[r].status = 200
        /\ req[r].email # Absent /\ req[r].name = Absent
        /\ Cardinality(profiles) = 2
        /\ req[r].body.profile \in profiles
        /\ req[r].body.profile.email = req[r].email
        /\ \E o \in profiles : o.name # "" /\ o.id # req[r].pid

-----------------------------------------------------------------------------
(* DELETE /user-profiles/:id *)

C21_DeleteOutcome(q, before, after) ==
    LET target == {p \in before : p.id = q.pid}
    IN  IF target = {}
        THEN /\ q.status = 404
             /\ q.body = [kind |-> "message", message |-> "Not Found"]
             /\ after = before
        ELSE /\ q.status = 200
             /\ q.body.kind = "profile"
             /\ q.body.profile \in target
             /\ after = before \ target

C21_DeleteStep ==
    \A r \in AllSlots :
        (req[r].op = "deleteUserProfile" /\ req[r].pc = "delete" /\ Done(r)')
        => /\ C21_DeleteOutcome(req'[r], profiles, profiles')
           /\ idCounter' = idCounter

C21_GetStep ==
    \A r \in AllSlots :
        (/\ req[r].op = "getUserProfileById" /\ req[r].pc = "find" /\ Done(r)'
         /\ \A p \in profiles : p.id # req[r].pid)
        => /\ req'[r].status = 404
           /\ req'[r].body = [kind |-> "message", message |-> "Not Found"]

\* C21: an authenticated DELETE of the id of a record answers 200 with that
\* record and removes it and nothing else, so that a later GET of the id
\* answers 404; a DELETE of an id no record has answers 404 "Not Found" and
\* leaves the store unchanged.
C21_Delete == [][C21_DeleteStep /\ C21_GetStep]_vars

C21_Witness ==
    \E r \in AllSlots :
        /\ Done(r) /\ req[r].op = "getUserProfileById" /\ req[r].status = 404
        /\ req[r].pid \in 1 .. idCounter
        /\ profiles # {}

-----------------------------------------------------------------------------
(* Validation failures *)

\* The fields of the request's first failing input source that do not fit
\* the shape declared for them.
C22_Failing(q) ==
    LET credentials ==
            {f \in {"email"} : q.email = Absent \/ q.email \notin Emails}
            \cup {f \in {"password"} :
                     q.password = Absent \/ StrLen(q.password) < MinPasswordLength}
        params == {f \in {"id"} : q.pid \notin CuidIds}
        query  == {f \in {"page"} : q.page # NoNumber /\ q.page < 1}
                  \cup {f \in {"pageSize"} : q.pageSize # NoNumber /\ q.pageSize < 1}
        body   == {f \in {"email"} : q.email # Absent /\ q.email \notin Emails}
                  \cup {f \in {"id"} : q.bid # Absent}
    IN  CASE q.op \in {"login", "register"} -> credentials
          [] q.op = "getAllUserProfiles" -> query
          [] q.op \in {"getUserProfileById", "deleteUserProfile"} -> params
          [] q.op = "updateUserProfile" -> IF params # {} THEN params ELSE body
          [] OTHER -> {}

C22_ShapeOrder(f) ==
    CASE f \in {"email", "page"} -> 1
      [] f \in {"password", "name", "pageSize"} -> 2
      [] OTHER -> 3

C22_State ==
    \A r \in AllSlots :
        LET q == req[r]
        IN  (Done(r) /\ ~AuthenticationFailed(q) /\ C22_Failing(q) # {})
            => /\ q.status = 400
               /\ q.body.kind = "errors"
               /\ q.body.message = "Bad Request"
               /\ Len(q.body.errors) = Cardinality(C22_Failing(q))
               /\ Range(q.body.errors) = C22_Failing(q)
               /\ \A i, j \in DOMAIN q.body.errors :
                     i < j => C22_ShapeOrder(q.body.errors[i])
                              < C22_ShapeOrder(q.body.errors[j])
               /\ q.dbOps = 0
               /\ q.setCookie = NoSetCookie

C22_Step ==
    \A r \in AllSlots :
        (req'[r] # req[r] /\ ValidationFailed(req'[r]))
        => (profiles' = profiles /\ jar' = jar)

\* C22: an input source that fails its shape is answered 400 with
\* { message: "Bad Request", errors }, one entry per failing field in the
\* shape's field order (an empty body to /login or /register gives email then
\* password), with no store access and no cookie change.
C22_ValidationErrors == []C22_State /\ [][C22_Step]_vars

C22_Witness ==
    \E r \in AllSlots :
        /\ Done(r) /\ req[r].op = "register"
        /\ req[r].email = Absent /\ req[r].password = Absent
        /\ req[r].body = BadRequest(<<"email", "password">>)
        /\ profiles # {}

-----------------------------------------------------------------------------
(* GET /user-profiles *)

RECURSIVE C23_OldestFirst(_)
C23_OldestFirst(rows) ==
    IF rows = {} THEN <<>>
    ELSE LET oldest == CHOOSE p \in rows : \A o \in rows : p.createdAt <= o.createdAt
         IN  <<oldest>> \o C23_OldestFirst(rows \ {oldest})

C23_ListStep ==
    \A r \in AllSlots :
        (req[r].op = "getAllUserProfiles" /\ req[r].pc = "query" /\ Done(r)')
        => LET p == req[r].page
               s == req[r].pageSize
               ordered == C23_OldestFirst(profiles)
           IN  /\ (p - 1) * s >= 0
               /\ req'[r].status = 200
               /\ req'[r].body =
                      ListBody(SubSeq(ordered, (p - 1) * s + 1, Min(Len(ordered), p * s)))

\* C23: an authenticated GET /user-profiles with page p and pageSize s
\* (defaults 1 and 10) answers 200 with the profiles at positions
\* (p-1)*s .. p*s-1 of the stored profiles ordered by createdAt ascending,
\* and (p-1)*s is never negative.
C23_OldestFirstPage == [][C23_ListStep]_vars

-----------------------------------------------------------------------------
(* Cookie attributes *)

\* The Set-Cookie header of a cookie, as the list of its parts between "; ".
C24_Header(c) ==
    <<<<c.name, c.value>>, <<"Path", c.path>>>>
    \o (IF "expires" \in DOMAIN c THEN <<<<"Expires", c.expires>>>> ELSE <<>>)
    \o (IF c.httpOnly THEN <<"HttpOnly">> ELSE <<>>)
    \o (IF c.secure THEN <<"Secure">> ELSE <<>>)
    \o <<<<"SameSite", IF c.sameSite = "strict" THEN "Strict" ELSE c.sameSite>>>>

\* C24: every cookie the server sets or clears is named jwt, HttpOnly and
\* SameSite=Strict, and Secure exactly in production; a clearing cookie has
\* the same name and attributes, an empty value and an expired date (outside
\* production: jwt=; Path=/; Expires=Thu, 01 Jan 1970 00:00:00 GMT; HttpOnly;
\* SameSite=Strict).
C24_CookieAttributes ==
    \A r \in AllSlots :
        LET c == req[r].setCookie
        IN  c # NoSetCookie
            => /\ c.name = "jwt"
               /\ c.httpOnly
               /\ c.sameSite = "strict"
               /\ c.secure <=> (nodeEnv = "production")
               /\ c.kind = "clear"
                  => /\ c.value = ""
                     /\ c.expires = "Thu, 01 Jan 1970 00:00:00 GMT"
                     /\ nodeEnv # "production"
                        => C24_Header(c)
                           = << <<"jwt", "">>, <<"Path", "/">>,
                                <<"Expires", "Thu, 01 Jan 1970 00:00:00 GMT">>,
                                "HttpOnly", <<"SameSite", "Strict">> >>

C24_Witness ==
    \E r \in AllSlots :
        /\ Done(r) /\ req[r].op = "logout"
        /\ req[r].setCookie.kind = "clear"
        /\ nodeEnv = "development"
        /\ jar.kind = "jwt"

-----------------------------------------------------------------------------
(* Every route together: the routes of the authentication controller, the  *)
(* guarded profile routes and the create route of the router that mounts   *)
(* createUserProfile.  The clock stands still.                             *)

NextAll ==
    \/ \E r \in Slots : LoginValidate(r)
    \/ \E r \in Slots : LoginLookup(r)
    \/ \E r \in Slots : LoginCompare(r)
    \/ \E r \in Slots : RegisterValidate(r)
    \/ \E r \in Slots : RegisterLookup(r)
    \/ \E r \in Slots : RegisterHash(r)
    \/ \E r \in Slots : RegisterSave(r)
    \/ \E r \in Slots : Logout(r)
    \/ \E r \in Slots : getAllUserProfiles(r)
    \/ \E r \in Slots : GetAllQuery(r)
    \/ \E r \in Slots : getUserProfileById(r)
    \/ \E r \in Slots : GetByIdFind(r)
    \/ \E r \in Slots : updateUserProfile(r)
    \/ \E r \in Slots : UpdateWrite(r)
    \/ \E r \in Slots : deleteUserProfile(r)
    \/ \E r \in Slots : DeleteWrite(r)
    \/ \E r \in Slots : createUserProfile(r)
    \/ \E r \in Slots : CreateSave(r)
    \/ \E r \in Slots : Deliver(r)

SpecAll == Init /\ [][NextAll]_vars

-----------------------------------------------------------------------------
(* POST /user-profiles *)

C25_CreateStep ==
    \A r \in AllSlots :
        (req[r].op = "createUserProfile" /\ req[r].pc = "create" /\ Done(r)')
        => LET q == req'[r]
               idGiven == q.pid # NoNumber
               idTaken == idGiven /\ \E p \in profiles : p.id = q.pid
               emailTaken == \E p \in profiles : p.email = q.email
           IN  /\ idTaken
                  => /\ q.status = 409
                     /\ q.body = [kind |-> "message", message |-> "Profile already exists"]
                     /\ profiles' = profiles
               /\ (~idTaken /\ ~emailTaken)
                  => /\ q.status = 201
                     /\ q.body.kind = "profile"
                     /\ q.body.profile.email = q.email
                     /\ q.name # Absent => q.body.profile.name = q.name
                     /\ IF idGiven THEN q.body.profile.id = q.pid
                        ELSE \A p \in profiles : p.id # q.body.profile.id
                     /\ q.body.profile \notin profiles
                     /\ profiles' = profiles \cup {q.body.profile}

C25_BadRequest ==
    \A r \in AllSlots :
        (Done(r) /\ req[r].op = "createUserProfile" /\ req[r].email = Absent)
        => /\ req[r].status = 400
           /\ req[r].body.kind = "errors"
           /\ req[r].body.message = "Bad Request"
           /\ \E i \in DOMAIN req[r].body.errors : req[r].body.errors[i] = "email"
           /\ req[r].dbOps = 0

-----------------------------------------------------------------------------
(* The writers of the store, two requests at a time: register, create,     *)
(* PATCH and DELETE, in any order and with their steps interleaved.        *)

\* The requests that get as far as the store: well-formed, and sent with the
\* session cookie where the route is guarded.
RegisterWellFormed(r) ==
    /\ Free(r)
    /\ \E email \in Emails : RegisterRequest(r, email, "password123")

CreateWellFormed(r) ==
    /\ Free(r)
    /\ \E id \in SuppliedIds \cup {NoNumber}, email \in Emails :
          CreateRequest(r, id, email, Absent)

UpdateWellFormed(r) ==
    /\ Free(r)
    /\ \E id \in {p.id : p \in profiles}, email \in Emails :
          UpdateRequest(r, jar, id,
                        [email |-> email, name |-> Absent, bid |-> Absent,
                         extra |-> Absent])

DeleteWellFormed(r) ==
    /\ Free(r)
    /\ \E id \in {p.id : p \in profiles} : DeleteRequest(r, jar, id)

NextStore ==
    \/ \E r \in RaceSlots : RegisterWellFormed(r)
    \/ \E r \in RaceSlots : RegisterLookup(r)
    \/ \E r \in RaceSlots : RegisterHash(r)
    \/ \E r \in RaceSlots : RegisterSave(r)
    \/ \E r \in RaceSlots : CreateWellFormed(r)
    \/ \E r \in RaceSlots : CreateSave(r)
    \/ \E r \in RaceSlots : UpdateWellFormed(r)
    \/ \E r \in RaceSlots : UpdateWrite(r)
    \/ \E r \in RaceSlots : DeleteWellFormed(r)
    \/ \E r \in RaceSlots : DeleteWrite(r)
    \/ \E r \in RaceSlots : Deliver(r)

SpecStore == InitFault /\ [][NextStore]_vars

-----------------------------------------------------------------------------
(* Registration and the store *)

C27_RegisterStep ==
    \A r \in AllSlots :
        (StepOf(r, "register") /\ profiles' # profiles)
        => (Done(r)' /\ req'[r].status = 201)

\* C27: a register request changes the store only if it responds 201; when
\* it ends with any other outcome, a fault during token issuance included,
\* it has created no record.
C27_AllOrNothing == [][C27_RegisterStep]_vars

-----------------------------------------------------------------------------
(* Responses per request *)

\* C28: on every path through every route handler (login, register, logout,
\* list, get, update, delete, create), the paths where validation or
\* authentication fails and an exception is thrown included, the handler
\* sends a status and body at most once.
C28_OneResponse == \A r \in AllSlots : req[r].sends <= 1

C28_Witness ==
    \E r \in AllSlots :
        /\ Done(r) /\ req[r].op = "updateUserProfile"
        /\ AuthenticationFailed(req[r])
        /\ req[r].sends = 1 /\ req[r].nexts = 1
        /\ profiles # {}

-----------------------------------------------------------------------------
(* DELETE requests, two at a time *)

NextDelete ==
    \/ \E r \in RaceSlots : deleteUserProfile(r)
    \/ \E r \in RaceSlots : DeleteWrite(r)
    \/ \E r \in RaceSlots : Deliver(r)

InitDelete ==
    /\ profiles = {FirstProfile,
                   saveUserProfileToDatabase({FirstProfile}, 1,
                       CreateInput(NoNumber, "b@x.com", Absent,
                                   hashPassword("password123", 2))).row}
    /\ idCounter = 2
    /\ now = 0
    /\ ticks = 0
    /\ nodeEnv \in {"development", "production"}
    /\ jwtSecret = ServerSecret
    /\ req = [r \in AllSlots |-> Blank]
    /\ jar = generateJwtToken(FirstProfile, ServerSecret, 0).token
    /\ salts = 2
    /\ scn = NoScenario
    /\ call = NoCall

SpecDelete == InitDelete /\ [][NextDelete]_vars

\* Two authenticated DELETE requests for one id that a record had when each
\* of them arrived; with no other writer, both were in flight together.
C29_Concurrent(r, o) ==
    /\ r # o
    /\ req[r].op = "deleteUserProfile" /\ req[o].op = "deleteUserProfile"
    /\ req[r].pid = req[o].pid
    /\ req[r].existed /\ req[o].existed
    /\ ~BadCookie(req[r]) /\ ~BadCookie(req[o])

\* C29: of two concurrent authenticated DELETE requests for the same
\* existing id, in every interleaving, exactly one responds 200 with the
\* deleted record and the other 404 { message: "Not Found" }; neither ends
\* as an unhandled fault, and the record is absent afterwards.
C29_ConcurrentDelete ==
    \A r, o \in AllSlots :
        (C29_Concurrent(r, o) /\ Done(r) /\ Done(o))
        => /\ {req[r].status, req[o].status} = {200, 404}
           /\ \A x \in {r, o} :
                 /\ req[x].nexts = 0
                 /\ req[x].status = 200
                    => /\ req[x].body.kind = "profile"
                       /\ req[x].body.profile.id = req[x].pid
                 /\ req[x].status = 404
                    => req[x].body = [kind |-> "message", message |-> "Not Found"]
           /\ \A p \in profiles : p.id # req[r].pid

C29_Witness ==
    \E r, o \in AllSlots :
        /\ C29_Concurrent(r, o) /\ Done(r) /\ Done(o)
        /\ req[r].status = 404 /\ req[o].status = 200
        /\ r < o
        /\ profiles # {}

-----------------------------------------------------------------------------
(* asyncHandler *)

\* The handler of q threw or rejected: validateX and requireAuthentication
\* throw after they respond, and a store error the handler does not
\* translate is rethrown.
C30_Threw(q) == ValidationFailed(q) \/ AuthenticationFailed(q) \/ q.fault

\* C30: an error the wrapped handler throws or rejects with is passed to
\* next exactly once, and next is not called when the handler completes
\* without error; the wrapper itself always completes.
C30_NextOnce ==
    \A r \in AllSlots :
        req[r].op \in GuardedOps
        => /\ req[r].nexts <= 1
           /\ req[r].pc # "returned"
           /\ Done(r) => (req[r].nexts = IF C30_Threw(req[r]) THEN 1 ELSE 0)

C30_Witness ==
    \E r \in AllSlots :
        /\ Done(r) /\ req[r].op = "deleteUserProfile"
        /\ req[r].fault /\ req[r].sends = 0
        /\ req[r].nexts = 1 /\ req[r].status = 500

====
